---- MODULE Spec2Model ----
(***************************************************************************)
(* Model of the web-log analyzer: the log parser (analyzer/log_parser.py), *)
(* the filter/aggregation engine (analyzer/spark_analyzer.py) and the      *)
(* request handlers around the parsed-record cache (analyzer/views.py).    *)
(*                                                                         *)
(* Text is a sequence of one-character strings, so that strip, split,      *)
(* substring tests, isdigit and int() are computed, not assumed.           *)
(***************************************************************************)
EXTENDS Integers, Sequences, FiniteSets, TLC

VARIABLES
    content,      \* parse_log_file: the input, already split on "\n"
    pc,           \* parse_log_file: position in the function
    mode,         \* "none" | "log" | "csv": the strategy chosen
    lines,        \* the non-blank lines
    idx,          \* 1-based occurrence number of the line being processed
    entries,      \* records accumulated so far
    errors,       \* diagnostics accumulated so far
    delimiter,    \* parse_csv_file: the delimiter chosen from the header
    field_map,    \* parse_csv_file: role -> column index, -1 when unmapped
    in_entries,   \* run_analyses: the entry dicts passed in
    filters,      \* run_analyses: the filter dict
    selected,     \* run_analyses: selected_analyses
    apc,          \* run_analyses: position in the function
    df,           \* run_analyses: the (filtered) rows
    sel_i,        \* run_analyses: 0-based loop index over selected_analyses
    results,      \* run_analyses: the result dict being built
    progress,     \* values passed to progress_callback so far
    replaced,     \* analysis key -> the result that a repeated run of it replaced
    db_files,     \* views: ids of the UploadedFile rows (each with its stored file)
    PARSED_DATA_CACHE,  \* views: the keys of the process-wide cache dict
    cache_writers,      \* file id -> the requests that have written that cache key
    req,          \* request -> the view it calls, its arguments, its position
    job,          \* request -> status of the AnalysisJob row it created, as saved
    response      \* request -> the status of the response, 0 while there is none

parseVars == <<content, pc, mode, lines, idx, entries, errors, delimiter, field_map>>
runVars == <<in_entries, filters, selected, apc, df, sel_i, results, progress, replaced>>
viewVars == <<db_files, PARSED_DATA_CACHE, cache_writers, req, job, response>>
vars == <<content, pc, mode, lines, idx, entries, errors, delimiter, field_map,
          in_entries, filters, selected, apc, df, sel_i, results, progress, replaced,
          db_files, PARSED_DATA_CACHE, cache_writers, req, job, response>>

(***************************************************************************)
(* Bounds of the model                                                     *)
(***************************************************************************)
MaxLines == 3

MaxEntries == 3

MaxRequests == 2

(***************************************************************************)
(* Python text primitives                                                  *)
(***************************************************************************)
Digits == {"0", "1", "2", "3", "4", "5", "6", "7", "8", "9"}

UpperAlpha == <<"A", "B", "C", "D", "E", "F", "G", "H", "I", "J", "K", "L", "M",
                "N", "O", "P", "Q", "R", "S", "T", "U", "V", "W", "X", "Y", "Z">>

LowerAlpha == <<"a", "b", "c", "d", "e", "f", "g", "h", "i", "j", "k", "l", "m",
                "n", "o", "p", "q", "r", "s", "t", "u", "v", "w", "x", "y", "z">>

Range(s) == {s[i] : i \in 1..Len(s)}

\* \s of the regular expressions and the default of str.strip()
Whitespace == {" ", "\t", "\r"}

\* \w of the regular expressions
WordChars == Range(UpperAlpha) \cup Range(LowerAlpha) \cup Digits \cup {"_"}

QuoteChars == {"\"", "'"}

MinOf(S) == CHOOSE x \in S : \A y \in S : x <= y

MaxOf(S) == CHOOSE x \in S : \A y \in S : x >= y

lower_char(c) ==
    IF c \in Range(UpperAlpha)
    THEN LowerAlpha[CHOOSE i \in 1..Len(UpperAlpha) : UpperAlpha[i] = c]
    ELSE c

\* str.lower()
str_lower(s) == [i \in 1..Len(s) |-> lower_char(s[i])]

\* sub in s
str_contains(s, sub) ==
    \E i \in 0..(Len(s) - Len(sub)) : SubSeq(s, i + 1, i + Len(sub)) = sub

\* s.strip(chars)
str_strip_chars(s, chars) ==
    LET keep == {i \in 1..Len(s) : s[i] \notin chars}
    IN IF keep = {} THEN <<>> ELSE SubSeq(s, MinOf(keep), MaxOf(keep))

\* s.strip()
str_strip(s) == str_strip_chars(s, Whitespace)

\* s[:n]
str_prefix(s, n) == SubSeq(s, 1, IF Len(s) < n THEN Len(s) ELSE n)

\* s.split(d) for a one-character delimiter d
RECURSIVE str_split(_, _)
str_split(s, d) ==
    LET hits == {i \in 1..Len(s) : s[i] = d}
    IN IF hits = {} THEN <<s>>
       ELSE LET i == MinOf(hits)
            IN <<SubSeq(s, 1, i - 1)>> \o str_split(SubSeq(s, i + 1, Len(s)), d)

\* s.isdigit(), for ASCII text
str_isdigit(s) == Len(s) > 0 /\ \A i \in 1..Len(s) : s[i] \in Digits

DigitVal(c) ==
    CASE c = "0" -> 0 [] c = "1" -> 1 [] c = "2" -> 2 [] c = "3" -> 3 [] c = "4" -> 4
      [] c = "5" -> 5 [] c = "6" -> 6 [] c = "7" -> 7 [] c = "8" -> 8 [] c = "9" -> 9

RECURSIVE digits_value(_)
digits_value(s) ==
    IF Len(s) = 0 THEN 0
    ELSE 10 * digits_value(SubSeq(s, 1, Len(s) - 1)) + DigitVal(s[Len(s)])

\* int(s) is defined (raises no ValueError): an optional sign, then digits
int_ok(s) ==
    \/ str_isdigit(s)
    \/ Len(s) > 1 /\ s[1] \in {"+", "-"} /\ str_isdigit(Tail(s))

\* int(s), where int_ok(s)
py_int(s) ==
    IF s[1] = "-" THEN 0 - digits_value(Tail(s))
    ELSE IF s[1] = "+" THEN digits_value(Tail(s))
    ELSE digits_value(s)

(***************************************************************************)
(* datetime                                                                *)
(***************************************************************************)
NoTimestamp == [some |-> FALSE, y |-> 0, mo |-> 0, d |-> 0, h |-> 0, mi |-> 0, s |-> 0]

IsLeap(y) == (y % 4 = 0 /\ y % 100 # 0) \/ y % 400 = 0

DaysInMonth(y, mo) ==
    IF mo = 2 THEN (IF IsLeap(y) THEN 29 ELSE 28)
    ELSE IF mo \in {4, 6, 9, 11} THEN 30 ELSE 31

\* datetime(y, mo, d, h, mi, s); some = FALSE stands for the ValueError
py_datetime(y, mo, d, h, mi, s) ==
    IF /\ y \in 1..9999 /\ mo \in 1..12 /\ d >= 1 /\ d <= DaysInMonth(y, mo)
       /\ h \in 0..23 /\ mi \in 0..59 /\ s \in 0..59
    THEN [some |-> TRUE, y |-> y, mo |-> mo, d |-> d, h |-> h, mi |-> mi, s |-> s]
    ELSE NoTimestamp

\* datetime.fromisoformat(s) for the shapes YYYY-MM-DD and YYYY-MM-DD?HH:MM:SS
\* (no fraction, no offset); some = FALSE stands for the ValueError
fromisoformat(s) ==
    LET date_ok == /\ Len(s) >= 10
                   /\ str_isdigit(SubSeq(s, 1, 4)) /\ s[5] = "-"
                   /\ str_isdigit(SubSeq(s, 6, 7)) /\ s[8] = "-"
                   /\ str_isdigit(SubSeq(s, 9, 10))
        time_ok == /\ Len(s) = 19
                   /\ str_isdigit(SubSeq(s, 12, 13)) /\ s[14] = ":"
                   /\ str_isdigit(SubSeq(s, 15, 16)) /\ s[17] = ":"
                   /\ str_isdigit(SubSeq(s, 18, 19))
        y == digits_value(SubSeq(s, 1, 4))
        mo == digits_value(SubSeq(s, 6, 7))
        d == digits_value(SubSeq(s, 9, 10))
    IN IF date_ok /\ Len(s) = 10 THEN py_datetime(y, mo, d, 0, 0, 0)
       ELSE IF date_ok /\ time_ok
       THEN py_datetime(y, mo, d, digits_value(SubSeq(s, 12, 13)),
                        digits_value(SubSeq(s, 15, 16)), digits_value(SubSeq(s, 18, 19)))
       ELSE NoTimestamp

\* a <= b on two present instants
dt_le(a, b) ==
    LET ka == <<a.y, a.mo, a.d, a.h, a.mi, a.s>>
        kb == <<b.y, b.mo, b.d, b.h, b.mi, b.s>>
    IN \/ ka = kb
       \/ \E i \in 1..6 : ka[i] < kb[i] /\ \A j \in 1..(i - 1) : ka[j] = kb[j]

(***************************************************************************)
(* log_parser.py                                                           *)
(***************************************************************************)
MONTH_MAP == << <<"J", "a", "n">>, <<"F", "e", "b">>, <<"M", "a", "r">>, <<"A", "p", "r">>,
                <<"M", "a", "y">>, <<"J", "u", "n">>, <<"J", "u", "l">>, <<"A", "u", "g">>,
                <<"S", "e", "p">>, <<"O", "c", "t">>, <<"N", "o", "v">>, <<"D", "e", "c">> >>

\* MONTH_MAP.get(month, 1)
month_num(month) ==
    IF \E i \in 1..12 : MONTH_MAP[i] = month
    THEN CHOOSE i \in 1..12 : MONTH_MAP[i] = month
    ELSE 1

\* the index after the longest run of characters of class C starting at s[i]
SpanEnd(s, i, C) ==
    MinOf({j \in i..(Len(s) + 1) : j = Len(s) + 1 \/ s[j] \notin C})

\* parse_apache_timestamp: (\d+)/(\w+)/(\d+):(\d+):(\d+):(\d+)\s*([+-]\d+)? matched
\* at the start of the text; the offset group is matched and never used
parse_apache_timestamp(s) ==
    LET e1 == SpanEnd(s, 1, Digits)
        e2 == SpanEnd(s, e1 + 1, WordChars)
        e3 == SpanEnd(s, e2 + 1, Digits)
        e4 == SpanEnd(s, e3 + 1, Digits)
        e5 == SpanEnd(s, e4 + 1, Digits)
        e6 == SpanEnd(s, e5 + 1, Digits)
        matched == /\ e1 > 1 /\ e1 <= Len(s) /\ s[e1] = "/"
                   /\ e2 > e1 + 1 /\ e2 <= Len(s) /\ s[e2] = "/"
                   /\ e3 > e2 + 1 /\ e3 <= Len(s) /\ s[e3] = ":"
                   /\ e4 > e3 + 1 /\ e4 <= Len(s) /\ s[e4] = ":"
                   /\ e5 > e4 + 1 /\ e5 <= Len(s) /\ s[e5] = ":"
                   /\ e6 > e5 + 1
    IN IF matched
       THEN py_datetime(digits_value(SubSeq(s, e2 + 1, e3 - 1)),
                        month_num(SubSeq(s, e1 + 1, e2 - 1)),
                        digits_value(SubSeq(s, 1, e1 - 1)),
                        digits_value(SubSeq(s, e3 + 1, e4 - 1)),
                        digits_value(SubSeq(s, e4 + 1, e5 - 1)),
                        digits_value(SubSeq(s, e5 + 1, e6 - 1)))
       ELSE NoTimestamp

\* A line of the input. An "access" line is a line of the combined shape, kept as the
\* tokens the patterns capture; a "raw" line is any other text (it holds no "[").
AccessLine(host, ident, user, ts, method, path, protocol, status, size) ==
    [kind |-> "access", host |-> host, ident |-> ident, user |-> user, ts |-> ts,
     method |-> method, path |-> path, protocol |-> protocol, status |-> status,
     size |-> size]

RawLine(text) == [kind |-> "raw", text |-> text]

\* the characters of a line
LineText(l) ==
    IF l.kind = "raw" THEN l.text
    ELSE l.host \o <<" ">> \o l.ident \o <<" ">> \o l.user \o <<" ", "[">> \o l.ts
         \o <<"]", " ", "\"">> \o l.method \o <<" ">> \o l.path
         \o (IF l.protocol = <<>> THEN <<>> ELSE <<" ">> \o l.protocol)
         \o <<"\"", " ">> \o l.status \o <<" ">> \o l.size

\* a capture group that took no part in the match (None in match.groups())
NoneGroup == <<"None">>

NoMatch == <<>>

\* pattern.match(line).groups() for APACHE_COMBINED_REGEX and NGINX_REGEX: both
\* patterns have ten capture groups; the status group is (\d+), the size group (\S+);
\* NGINX_REGEX wants the two tokens after the host to be "-". The lines of the model
\* carry no referrer, user agent or response time, so groups 8 to 10 are None.
re_match_groups(pattern, l) ==
    IF /\ l.kind = "access"
       /\ l.host # <<>> /\ l.ident # <<>> /\ l.user # <<>> /\ l.ts # <<>>
       /\ l.method # <<>> /\ l.path # <<>> /\ l.size # <<>>
       /\ str_isdigit(l.status)
       /\ (pattern = "NGINX_REGEX" => l.ident = <<"-">> /\ l.user = <<"-">>)
    THEN <<l.host, l.ts, l.method, l.path, l.protocol, l.status, l.size,
           NoneGroup, NoneGroup, NoneGroup>>
    ELSE NoMatch

\* the number of names on the left of "= match.groups()"
NumTargets == 7

NoEntry == [kind |-> "none"]

Raised == [kind |-> "raise"]

ParsedLogEntry(ip, timestamp, method, path, protocol, status, size, raw_line) ==
    [kind |-> "entry", ip |-> ip, timestamp |-> timestamp, method |-> method,
     path |-> path, protocol |-> protocol, status |-> status, size |-> size,
     raw_line |-> raw_line]

S_GET == <<"G", "E", "T">>

S_HTTP11 == <<"H", "T", "T", "P", "/", "1", ".", "1">>

S_unknown == <<"u", "n", "k", "n", "o", "w", "n">>

\* x or default
py_or(x, default) == IF x = <<>> THEN default ELSE x

\* parse_log_line from the unpacking of the groups on: the unpacking raises
\* ValueError unless the tuple has as many values as there are names
line_entry(g, line) ==
    IF Len(g) # NumTargets THEN Raised
    ELSE LET ip == g[1]
             timestamp_str == g[2]
             method == g[3]
             path == g[4]
             protocol == g[5]
             status == g[6]
             size == g[7]
             parsed_size == IF size = <<"-">> THEN 0
                            ELSE IF str_isdigit(size) THEN py_int(size) ELSE 0
         IN IF size = <<"-">> THEN NoEntry
            ELSE ParsedLogEntry(ip, parse_apache_timestamp(timestamp_str),
                                py_or(method, S_GET), py_or(path, <<"/">>),
                                py_or(protocol, S_HTTP11),
                                IF str_isdigit(status) THEN py_int(status) ELSE 0,
                                parsed_size, line)

parse_log_line(l) ==
    LET line == str_strip(LineText(l))
        m == <<re_match_groups("APACHE_COMBINED_REGEX", l), re_match_groups("NGINX_REGEX", l)>>
        hits == {p \in 1..2 : m[p] # NoMatch}
    IN IF line = <<>> THEN NoEntry
       ELSE IF hits = {} THEN NoEntry
       ELSE line_entry(m[MinOf(hits)], line)

CSV_HEADER_KEYWORDS ==
    { <<"i", "p">>, <<"a", "d", "d", "r", "e", "s", "s">>,
      <<"t", "i", "m", "e", "s", "t", "a", "m", "p">>, <<"d", "a", "t", "e">>,
      <<"m", "e", "t", "h", "o", "d">>, <<"u", "r", "l">>, <<"p", "a", "t", "h">>,
      <<"s", "t", "a", "t", "u", "s">>, <<"s", "i", "z", "e">>,
      <<"b", "y", "t", "e", "s">> }

detect_csv_format_mut(first_line) ==
    \/ \E keyword \in CSV_HEADER_KEYWORDS : str_contains(first_line, keyword)
    \/ str_contains(first_line, <<",">>)
detect_csv_format(first_line) ==
    \/ \E keyword \in CSV_HEADER_KEYWORDS : str_contains(str_lower(first_line), keyword)
    \/ str_contains(first_line, <<",">>)

Roles == {"ip", "timestamp", "method", "path", "status", "size"}

\* the role a header token is matched to, "none" when it matches no keyword
header_role_mut(header) ==
    LET h == str_strip_chars(str_strip(str_lower(header)), QuoteChars)
        has(kw) == str_contains(h, kw)
    IN IF has(<<"p", "a", "t", "h">>) \/ has(<<"u", "r", "l">>) \/ has(<<"u", "r", "i">>)
          \/ has(<<"r", "e", "q", "u", "e", "s", "t">>) THEN "path"
       ELSE IF has(<<"i", "p">>) \/ has(<<"a", "d", "d", "r", "e", "s", "s">>)
          \/ has(<<"c", "l", "i", "e", "n", "t">>) THEN "ip"
       ELSE IF has(<<"t", "i", "m", "e">>) \/ has(<<"d", "a", "t", "e">>) THEN "timestamp"
       ELSE IF has(<<"m", "e", "t", "h", "o", "d">>) \/ has(<<"v", "e", "r", "b">>) THEN "method"
       ELSE IF has(<<"s", "t", "a", "t", "u", "s">>) \/ has(<<"c", "o", "d", "e">>)
          \/ has(<<"r", "e", "s", "p", "o", "n", "s", "e">>) THEN "status"
       ELSE IF has(<<"s", "i", "z", "e">>) \/ has(<<"b", "y", "t", "e", "s">>)
          \/ has(<<"l", "e", "n", "g", "t", "h">>) THEN "size"
       ELSE "none"
header_role(header) ==
    LET h == str_strip_chars(str_strip(str_lower(header)), QuoteChars)
        has(kw) == str_contains(h, kw)
    IN IF has(<<"i", "p">>) \/ has(<<"a", "d", "d", "r", "e", "s", "s">>)
          \/ has(<<"c", "l", "i", "e", "n", "t">>) THEN "ip"
       ELSE IF has(<<"t", "i", "m", "e">>) \/ has(<<"d", "a", "t", "e">>) THEN "timestamp"
       ELSE IF has(<<"m", "e", "t", "h", "o", "d">>) \/ has(<<"v", "e", "r", "b">>) THEN "method"
       ELSE IF has(<<"p", "a", "t", "h">>) \/ has(<<"u", "r", "l">>) \/ has(<<"u", "r", "i">>)
          \/ has(<<"r", "e", "q", "u", "e", "s", "t">>) THEN "path"
       ELSE IF has(<<"s", "t", "a", "t", "u", "s">>) \/ has(<<"c", "o", "d", "e">>)
          \/ has(<<"r", "e", "s", "p", "o", "n", "s", "e">>) THEN "status"
       ELSE IF has(<<"s", "i", "z", "e">>) \/ has(<<"b", "y", "t", "e", "s">>)
          \/ has(<<"l", "e", "n", "g", "t", "h">>) THEN "size"
       ELSE "none"

\* field_map.get(role, -1) for every role; a later column of a role replaces an earlier
detect_csv_fields(headers) ==
    LET F[i \in 0..Len(headers)] ==
            IF i = 0 THEN [r \in Roles |-> -1]
            ELSE IF header_role(headers[i]) = "none" THEN F[i - 1]
            ELSE [F[i - 1] EXCEPT ![header_role(headers[i])] = i - 1]
    IN F[Len(headers)]

\* status of a delimited row, from its status cell
csv_status_mut(status_str) == IF int_ok(status_str) THEN py_int(status_str) ELSE 0
csv_status(status_str) == IF str_isdigit(status_str) THEN py_int(status_str) ELSE 0

\* timestamp of a delimited row: ISO first, then the Apache shape
csv_timestamp(ts_str) ==
    IF fromisoformat(ts_str).some THEN fromisoformat(ts_str)
    ELSE parse_apache_timestamp(ts_str)

parse_csv_line(values, fm, line) ==
    LET cell(role) == values[fm[role] + 1]
        index_error == \E r \in Roles : fm[r] >= Len(values)
        ip == IF fm["ip"] >= 0 THEN cell("ip") ELSE S_unknown
        timestamp == IF fm["timestamp"] >= 0 THEN csv_timestamp(cell("timestamp"))
                     ELSE NoTimestamp
        method == IF fm["method"] >= 0 THEN cell("method") ELSE S_GET
        path == IF fm["path"] >= 0 THEN cell("path") ELSE <<"/">>
        status == IF fm["status"] >= 0 THEN csv_status(cell("status")) ELSE 0
        no_size == fm["size"] >= 0 /\ (cell("size") = <<>> \/ cell("size") = <<"-">>)
        size == IF fm["size"] >= 0
                THEN (IF str_isdigit(cell("size")) THEN py_int(cell("size")) ELSE 0)
                ELSE 0
    IN IF index_error THEN NoEntry
       ELSE IF no_size THEN NoEntry
       ELSE IF ip = S_unknown /\ path = <<"/">> /\ status = 0 THEN NoEntry
       ELSE ParsedLogEntry(ip, timestamp, method, path, S_HTTP11, status, size, line)

\* the delimiter parse_csv_file chooses from the header line
csv_delimiter(first_line) == IF str_contains(first_line, <<"\t">>) THEN "\t" ELSE ","

\* [h.strip() for h in first_line.split(delimiter)]
csv_headers(first_line) ==
    LET parts == str_split(first_line, csv_delimiter(first_line))
    IN [i \in 1..Len(parts) |-> str_strip(parts[i])]

\* [v.strip().strip('"\'') for v in line.split(delimiter)]
csv_values(line, d) ==
    LET parts == str_split(line, d)
    IN [i \in 1..Len(parts) |-> str_strip_chars(str_strip(parts[i]), QuoteChars)]

\* the test that rejects the whole file
csv_unrecognized_mut(fm) == fm["ip"] = -1 /\ fm["path"] = -1 /\ fm["status"] = -1
csv_unrecognized(fm) == fm["ip"] = -1 /\ fm["path"] = -1

\* the length of the line prefix quoted in a diagnostic
ErrPrefixLen == 60

LineError(i, line) == [n |-> i, msg |-> "Unable to parse", text |-> str_prefix(line, ErrPrefixLen)]

FileError(msg) == [n |-> 0, msg |-> msg, text |-> <<>>]

(***************************************************************************)
(* spark_analyzer.py                                                       *)
(***************************************************************************)
\* a row of the DataFrame
Row(ip, timestamp, method, path, protocol, status, size) ==
    [ip |-> ip, timestamp |-> timestamp, method |-> method, path |-> path,
     protocol |-> protocol, status |-> status, size |-> size]

\* s.replace('Z', '+00:00') followed by datetime.fromisoformat, for text without "Z"
entry_timestamp(ts) == IF ts = <<>> THEN NoTimestamp ELSE fromisoformat(ts)

create_dataframe(es) ==
    [i \in 1..Len(es) |->
        Row(es[i].ip, entry_timestamp(es[i].timestamp), es[i].method, es[i].path,
            es[i].protocol, es[i].status, es[i].size)]

\* an absent numeric option
NoInt == [given |-> FALSE, v |-> 0]

SomeInt(v) == [given |-> TRUE, v |-> v]

\* truth value of size_range.get('min') / size_range.get('max')
int_truthy(o) == o.given /\ o.v # 0

\* a filter dict none of whose keys is given
NoFilters ==
    [dateRange |-> [start |-> <<>>, end |-> <<>>], ipAddress |-> <<>>, urlPattern |-> <<>>,
     statusCodes |-> <<>>, httpMethods |-> <<>>, sizeRange |-> [min |-> NoInt, max |-> NoInt]]

\* the codes that stand for a class of a hundred statuses
GroupCodes == {200, 300, 400, 500}

\* the condition one listed code contributes
status_condition_mut(code, status) == status = code
status_condition(code, status) ==
    IF code \in GroupCodes THEN status >= code /\ status < code + 100
    ELSE status = code

\* timestamp >= start_dt, timestamp <= end_dt; a null timestamp satisfies neither
ts_ge_mut(ts, start_dt) == ts.some /\ dt_le(start_dt, ts) /\ ts # start_dt
ts_ge(ts, start_dt) == ts.some /\ dt_le(start_dt, ts)

ts_le(ts, end_dt) == ts.some /\ dt_le(ts, end_dt)

apply_filters(rows, f) ==
    LET start_dt == fromisoformat(f.dateRange.start)
        end_dt == fromisoformat(f.dateRange.end)
        df1 == IF f.dateRange.start # <<>> /\ start_dt.some
               THEN SelectSeq(rows, LAMBDA r : ts_ge(r.timestamp, start_dt)) ELSE rows
        df2 == IF f.dateRange.end # <<>> /\ end_dt.some
               THEN SelectSeq(df1, LAMBDA r : ts_le(r.timestamp, end_dt)) ELSE df1
        df3 == IF f.ipAddress # <<>>
               THEN SelectSeq(df2, LAMBDA r : str_contains(r.ip, f.ipAddress)) ELSE df2
        df4 == IF f.urlPattern # <<>>
               THEN SelectSeq(df3, LAMBDA r : str_contains(r.path, f.urlPattern)) ELSE df3
        df5 == IF f.statusCodes # <<>>
               THEN SelectSeq(df4, LAMBDA r : \E c \in 1..Len(f.statusCodes) :
                                               status_condition(f.statusCodes[c], r.status))
               ELSE df4
        df6 == IF f.httpMethods # <<>>
               THEN SelectSeq(df5, LAMBDA r : r.method \in Range(f.httpMethods)) ELSE df5
        df7 == IF int_truthy(f.sizeRange.min)
               THEN SelectSeq(df6, LAMBDA r : r.size >= f.sizeRange.min.v) ELSE df6
        df8 == IF int_truthy(f.sizeRange.max)
               THEN SelectSeq(df7, LAMBDA r : r.size <= f.sizeRange.max.v) ELSE df7
    IN IF f = NoFilters THEN rows ELSE df8

\* groupBy(field).count(): the number of rows whose field is value
CountBy(rows, field, value) == Cardinality({i \in 1..Len(rows) : rows[i][field] = value})

RECURSIVE SumSize(_)
SumSize(rows) == IF rows = <<>> THEN 0 ELSE rows[1].size + SumSize(Tail(rows))

Perms(S) ==
    {p \in [1..Cardinality(S) -> S] : \A i, j \in 1..Cardinality(S) : i # j => p[i] # p[j]}

\* orderBy(F.desc(field)): every order of the rows of S in which field does not increase;
\* Spark leaves the order of rows with equal sort keys unspecified
OrderByDesc(S, field) ==
    {p \in Perms(S) : \A i \in 1..(Len(p) - 1) : p[i][field] >= p[i + 1][field]}

\* limit(n)
Limit(p, n) == SubSeq(p, 1, IF Len(p) < n THEN Len(p) ELSE n)

TopIpsLimit == 10

TopPagesLimit == 20

TopPathsLimit == 10

\* the results unique_ip_counter can return
unique_ip_counter(rows) ==
    LET ips == {rows[i].ip : i \in 1..Len(rows)}
        groups == {[ip |-> a, count |-> CountBy(rows, "ip", a)] : a \in ips}
    IN {[count |-> Cardinality(ips), topIps |-> Limit(p, TopIpsLimit)] :
            p \in OrderByDesc(groups, "count")}

\* the results top_pages_counter can return
top_pages_counter(rows) ==
    LET paths == {rows[i].path : i \in 1..Len(rows)}
        groups == {[path |-> a, count |-> CountBy(rows, "path", a)] : a \in paths}
    IN {Limit(p, TopPagesLimit) : p \in OrderByDesc(groups, "count")}

\* the hours of the day the result lists
HoursOfDay_mut == 24 - 1
HoursOfDay == 24

hourly_traffic_counter(rows) ==
    LET present == SelectSeq(rows, LAMBDA r : r.timestamp.some)
        hours == [i \in 1..Len(present) |-> [hour |-> present[i].timestamp.h]]
    IN {[i \in 1..HoursOfDay |-> [hour |-> i - 1, count |-> CountBy(hours, "hour", i - 1)]]}

RECURSIVE SortAsc(_)
SortAsc(S) == IF S = {} THEN <<>> ELSE <<MinOf(S)>> \o SortAsc(S \ {MinOf(S)})

status_code_distribution(rows) ==
    LET statuses == SortAsc({rows[i].status : i \in 1..Len(rows)})
    IN {[i \in 1..Len(statuses) |->
            [status |-> statuses[i], count |-> CountBy(rows, "status", statuses[i])]]}

\* the results bandwidth_aggregator can return; avgSize is kept as the exact
\* quotient total / n (0 / 1 for no rows)
bandwidth_aggregator(rows) ==
    LET paths == {rows[i].path : i \in 1..Len(rows)}
        groups == {[path |-> a,
                    bytes |-> SumSize(SelectSeq(rows, LAMBDA r : r.path = a))] : a \in paths}
    IN {[totalBytes |-> SumSize(rows),
         avgSize |-> IF rows = <<>> THEN <<0, 1>> ELSE <<SumSize(rows), Len(rows)>>,
         byPath |-> Limit(p, TopPathsLimit)] :
            p \in OrderByDesc(groups, "bytes")}

AnalysisIds == {"unique-ips", "top-pages", "hourly-traffic", "status-codes", "bandwidth"}

\* analysis_map[id][0], the key of the result
analysis_key_mut(id) ==
    CASE id = "unique-ips" -> "uniqueIps"
      [] id = "top-pages" -> "uniqueIps"
      [] id = "hourly-traffic" -> "hourlyTraffic"
      [] id = "status-codes" -> "statusCodes"
      [] id = "bandwidth" -> "bandwidth"
analysis_key(id) ==
    CASE id = "unique-ips" -> "uniqueIps"
      [] id = "top-pages" -> "topPages"
      [] id = "hourly-traffic" -> "hourlyTraffic"
      [] id = "status-codes" -> "statusCodes"
      [] id = "bandwidth" -> "bandwidth"

\* analysis_map[id][1](df), the results the analysis can return
analysis_func(id, rows) ==
    CASE id = "unique-ips" -> unique_ip_counter(rows)
      [] id = "top-pages" -> top_pages_counter(rows)
      [] id = "hourly-traffic" -> hourly_traffic_counter(rows)
      [] id = "status-codes" -> status_code_distribution(rows)
      [] id = "bandwidth" -> bandwidth_aggregator(rows)

\* d[key] = value on a dict
DictSet(d, key, value) ==
    [k \in DOMAIN d \cup {key} |-> IF k = key THEN value ELSE d[k]]

\* int((i + 1) / total * 100)
progress_percent(i, total) == ((i + 1) * 100) \div total

(***************************************************************************)
(* The inputs of parse_log_file                                            *)
(***************************************************************************)
S_host == <<"1", "0", ".", "0", ".", "0", ".", "1">>

S_ts_utc == <<"1", "0", "/", "O", "c", "t", "/", "2", "0", "2", "0", ":", "1", "3", ":", "5", "5", ":", "3", "6", " ", "+", "0", "0", "0", "0">>

S_ts_west == <<"1", "0", "/", "O", "c", "t", "/", "2", "0", "2", "0", ":", "1", "3", ":", "5", "5", ":", "3", "6", " ", "-", "0", "7", "0", "0">>

S_index == <<"/", "i", "n", "d", "e", "x", ".", "h", "t", "m", "l">>

Line_ok == AccessLine(S_host, <<"-">>, <<"-">>, S_ts_utc, S_GET, S_index, S_HTTP11,
                      <<"2", "0", "0">>, <<"1", "0", "2", "4">>)

Line_west == AccessLine(S_host, <<"-">>, <<"-">>, S_ts_west, S_GET, S_index, S_HTTP11,
                        <<"2", "0", "0">>, <<"1", "0", "2", "4">>)

Line_dash == AccessLine(S_host, <<"-">>, <<"-">>, S_ts_utc, S_GET, S_index, S_HTTP11,
                        <<"2", "0", "0">>, <<"-">>)

Line_junk == RawLine(<<"o", "o", "p", "s">>)

Line_blank == RawLine(<<" ">>)

Hdr_full == RawLine(<<"i", "p", ",", "p", "a", "t", "h", ",", "s", "t", "a", "t", "u", "s", ",", "b", "y", "t", "e", "s">>)

Hdr_nofields == RawLine(<<"s", "t", "a", "t", "u", "s", ",", "s", "i", "z", "e">>)

Row_ok == RawLine(<<"1", ".", "2", ".", "3", ".", "4", ",", "/", "a", ",", "2", "0", "0", ",", "5", "0", "0">>)

Row_dash == RawLine(<<"1", ".", "2", ".", "3", ".", "4", ",", "/", "a", ",", "2", "0", "0", ",", "-">>)

Row_signed == RawLine(<<"1", ".", "2", ".", "3", ".", "4", ",", "/", "a", ",", "-", "5", ",", "-", "7">>)

\* a header line with no comma, whose one token names two roles in upper case
Hdr_upper == RawLine(<<"I", "P", " ", "P", "A", "T", "H">>)

\* lines of the combined shape but for a non-numeric status or size token
Line_badstatus == AccessLine(S_host, <<"-">>, <<"-">>, S_ts_utc, S_GET, S_index, S_HTTP11,
                             <<"a", "b", "c">>, <<"1", "0", "2", "4">>)

Line_badsize == AccessLine(S_host, <<"-">>, <<"-">>, S_ts_utc, S_GET, S_index, S_HTTP11,
                           <<"2", "0", "0">>, <<"a", "b", "c">>)

SampleLines == {Line_ok, Line_west, Line_dash, Line_junk, Line_blank,
                Hdr_full, Hdr_nofields, Row_ok, Row_dash, Row_signed,
                Hdr_upper, Line_badstatus, Line_badsize}

RECURSIVE SeqsUpTo(_, _)
SeqsUpTo(S, n) ==
    IF n = 0 THEN {<<>>}
    ELSE LET shorter == SeqsUpTo(S, n - 1)
         IN shorter \cup {Append(q, x) : q \in {r \in shorter : Len(r) = n - 1}, x \in S}

Contents == SeqsUpTo(SampleLines, MaxLines)

(***************************************************************************)
(* The inputs of run_analyses                                              *)
(***************************************************************************)
EntryDict(ip, timestamp, method, path, status, size) ==
    [ip |-> ip, timestamp |-> timestamp, method |-> method, path |-> path,
     protocol |-> S_HTTP11, status |-> status, size |-> size]

S_host2 == <<"1", "0", ".", "0", ".", "0", ".", "2">>

S_POST == <<"P", "O", "S", "T">>

S_PUT == <<"P", "U", "T">>

S_a == <<"/", "a">>

S_b == <<"/", "b">>

T_noon == <<"2", "0", "2", "0", "-", "1", "0", "-", "1", "0", "T", "1", "3", ":", "5", "5", ":", "3", "6">>

T_early == <<"2", "0", "2", "0", "-", "1", "0", "-", "1", "0", "T", "1", "3", ":", "0", "5", ":", "0", "0">>

T_eve == <<"2", "0", "2", "0", "-", "1", "0", "-", "0", "9", "T", "2", "3", ":", "5", "9", ":", "5", "9">>

T_next == <<"2", "0", "2", "0", "-", "1", "0", "-", "1", "1", "T", "0", "0", ":", "0", "0", ":", "0", "0">>

T_day == <<"2", "0", "2", "0", "-", "1", "0", "-", "1", "0">>

T_bad == <<"o", "o", "p", "s">>

E_200 == EntryDict(S_host, T_noon, S_GET, S_a, 200, 1024)

E_404 == EntryDict(S_host2, <<>>, S_POST, S_b, 404, 0)

E_503 == EntryDict(S_host, T_next, S_GET, S_b, 503, 500)

E_501 == EntryDict(S_host2, T_early, S_GET, S_a, 501, 1024)

E_403 == EntryDict(S_host, T_eve, S_GET, S_a, 403, 500)

E_405 == EntryDict(S_host2, T_noon, S_PUT, S_b, 405, 1)

SampleEntries == {E_200, E_404, E_503, E_501, E_403, E_405}

EntryLists == SeqsUpTo(SampleEntries, MaxEntries)

F_status(codes) == [NoFilters EXCEPT !.statusCodes = codes]

F_size(min, max) == [NoFilters EXCEPT !.sizeRange = [min |-> min, max |-> max]]

F_date(start, end) == [NoFilters EXCEPT !.dateRange = [start |-> start, end |-> end]]

SampleFilters ==
    { NoFilters,
      F_status(<<404, 500>>), F_status(<<200>>),
      F_size(NoInt, SomeInt(0)), F_size(SomeInt(0), NoInt), F_size(SomeInt(1), SomeInt(500)),
      F_size(NoInt, SomeInt(500)),
      F_date(T_noon, <<>>), F_date(<<>>, T_noon), F_date(T_day, T_noon), F_date(T_noon, T_noon),
      F_date(T_bad, <<>>),
      [NoFilters EXCEPT !.ipAddress = <<"0", ".", "2">>],
      [NoFilters EXCEPT !.urlPattern = S_a],
      [NoFilters EXCEPT !.httpMethods = <<S_GET, S_PUT>>],
      [NoFilters EXCEPT !.statusCodes = <<500>>, !.httpMethods = <<S_GET>>,
                        !.sizeRange = [min |-> SomeInt(500), max |-> NoInt]] }

AllFive == <<"unique-ips", "top-pages", "hourly-traffic", "status-codes", "bandwidth">>

SampleSelections ==
    { AllFive, <<>>, <<"unique-ips", "unique-ips">>, <<"bandwidth", "nope", "bandwidth">>,
      <<"uniqueIps", "topPages">>, <<"top-pages", "top-pages", "hourly-traffic">>,
      <<"status-codes", "hourly-traffic">>, <<"status-codes", "nope">> }

\* the pairs (filters, selected_analyses) run_analyses is called with
RunCases ==
    (SampleFilters \X {AllFive}) \cup ({NoFilters, F_status(<<404, 500>>)} \X SampleSelections)

(***************************************************************************)
(* parse_log_file as a state machine: one action per loop iteration        *)
(***************************************************************************)
NoFields == [r \in Roles |-> -1]

NoResults == [totalRecords |-> 0, filteredRecords |-> 0, analyses |-> <<>>]

RunIdle ==
    /\ in_entries = <<>>
    /\ filters = NoFilters
    /\ selected = <<>>
    /\ apc = "idle"
    /\ df = <<>>
    /\ sel_i = 0
    /\ results = NoResults
    /\ progress = <<>>
    /\ replaced = <<>>

\* the requests of the model
Requests == 1..MaxRequests

\* the file ids of the model
FileIds == {"f1", "f2"}

\* a request that has not arrived
NoRequest == [view |-> "none", file_id |-> "", content |-> "", selected |-> "", at |-> "idle"]

ViewIdle ==
    /\ db_files = {}
    /\ PARSED_DATA_CACHE = {}
    /\ cache_writers = [f \in FileIds |-> {}]
    /\ req = [r \in Requests |-> NoRequest]
    /\ job = [r \in Requests |-> "none"]
    /\ response = [r \in Requests |-> 0]

Init ==
    /\ content \in Contents
    /\ pc = "start"
    /\ mode = "none"
    /\ lines = <<>>
    /\ idx = 0
    /\ entries = <<>>
    /\ errors = <<>>
    /\ delimiter = ","
    /\ field_map = NoFields
    /\ RunIdle
    /\ ViewIdle

IsNonBlank(l) == str_strip(LineText(l)) # <<>>

\* parse_log_file up to the choice of the strategy
parse_log_file_begin ==
    /\ pc = "start"
    /\ lines' = SelectSeq(content, IsNonBlank)
    /\ IF lines' = <<>>
       THEN /\ errors' = <<FileError("Empty file")>>
            /\ pc' = "done"
            /\ UNCHANGED <<mode, idx>>
       ELSE IF detect_csv_format(LineText(lines'[1]))
       THEN /\ mode' = "csv"
            /\ pc' = "csv_header"
            /\ UNCHANGED <<errors, idx>>
       ELSE /\ mode' = "log"
            /\ pc' = "log_loop"
            /\ idx' = 1
            /\ UNCHANGED errors
    /\ UNCHANGED <<content, entries, delimiter, field_map>>
    /\ UNCHANGED <<runVars, viewVars>>

\* one iteration of the loop over the lines of the line-oriented path
parse_log_file_line ==
    /\ pc = "log_loop"
    /\ idx <= Len(lines)
    /\ LET entry == parse_log_line(lines[idx])
       IN IF entry.kind = "raise"
          THEN /\ pc' = "raised"
               /\ UNCHANGED <<entries, errors, idx>>
          ELSE IF entry.kind = "entry"
          THEN /\ entries' = Append(entries, entry)
               /\ idx' = idx + 1
               /\ UNCHANGED <<errors, pc>>
          ELSE /\ errors' = Append(errors, LineError(idx, LineText(lines[idx])))
               /\ idx' = idx + 1
               /\ UNCHANGED <<entries, pc>>
    /\ UNCHANGED <<content, mode, lines, delimiter, field_map>>
    /\ UNCHANGED <<runVars, viewVars>>

parse_log_file_return ==
    /\ pc = "log_loop"
    /\ idx > Len(lines)
    /\ pc' = "done"
    /\ UNCHANGED <<content, mode, lines, idx, entries, errors, delimiter, field_map>>
    /\ UNCHANGED <<runVars, viewVars>>

\* parse_csv_file up to the loop over the data rows
parse_csv_file_header ==
    /\ pc = "csv_header"
    /\ IF lines = <<>>
       THEN /\ errors' = <<FileError("Empty file")>>
            /\ pc' = "done"
            /\ UNCHANGED <<delimiter, field_map, idx>>
       ELSE /\ delimiter' = csv_delimiter(LineText(lines[1]))
            /\ field_map' = detect_csv_fields(csv_headers(LineText(lines[1])))
            /\ IF csv_unrecognized(field_map')
               THEN /\ errors' = Append(errors, FileError("CSV does not contain recognizable log fields"))
                    /\ pc' = "done"
                    /\ UNCHANGED idx
               ELSE /\ pc' = "csv_loop"
                    /\ idx' = 2
                    /\ UNCHANGED errors
    /\ UNCHANGED <<content, mode, lines, entries>>
    /\ UNCHANGED <<runVars, viewVars>>

\* one iteration of the loop over the data rows
parse_csv_file_row ==
    /\ pc = "csv_loop"
    /\ idx <= Len(lines)
    /\ LET line == str_strip(LineText(lines[idx]))
           entry == parse_csv_line(csv_values(line, delimiter), field_map, line)
       IN IF line = <<>>
          THEN UNCHANGED <<entries, errors>>
          ELSE IF entry.kind = "entry"
          THEN /\ entries' = Append(entries, entry)
               /\ UNCHANGED errors
          ELSE /\ errors' = Append(errors, LineError(idx, line))
               /\ UNCHANGED entries
    /\ idx' = idx + 1
    /\ UNCHANGED <<content, pc, mode, lines, delimiter, field_map>>
    /\ UNCHANGED <<runVars, viewVars>>

parse_csv_file_return ==
    /\ pc = "csv_loop"
    /\ idx > Len(lines)
    /\ pc' = "done"
    /\ UNCHANGED <<content, mode, lines, idx, entries, errors, delimiter, field_map>>
    /\ UNCHANGED <<runVars, viewVars>>

(***************************************************************************)
(* run_analyses as a state machine: one action per selected analysis       *)
(***************************************************************************)
ParseIdle ==
    /\ content = <<>>
    /\ pc = "idle"
    /\ mode = "none"
    /\ lines = <<>>
    /\ idx = 0
    /\ entries = <<>>
    /\ errors = <<>>
    /\ delimiter = ","
    /\ field_map = NoFields

RunInit ==
    /\ ParseIdle
    /\ ViewIdle
    /\ in_entries \in EntryLists
    /\ \E c \in RunCases : filters = c[1] /\ selected = c[2]
    /\ apc = "start"
    /\ df = <<>>
    /\ sel_i = 0
    /\ results = NoResults
    /\ progress = <<>>
    /\ replaced = <<>>

\* run_analyses up to the loop: the DataFrame, the filters, the result dict
run_analyses_begin ==
    /\ apc = "start"
    /\ df' = IF filters # NoFilters
             THEN apply_filters(create_dataframe(in_entries), filters)
             ELSE create_dataframe(in_entries)
    /\ results' = [totalRecords |-> Len(in_entries), filteredRecords |-> Len(df'),
                   analyses |-> <<>>]
    /\ apc' = "loop"
    /\ sel_i' = 0
    /\ UNCHANGED <<in_entries, filters, selected, progress, replaced>>
    /\ UNCHANGED <<parseVars, viewVars>>

\* one iteration of the loop over selected_analyses, with a progress callback
run_analyses_step ==
    /\ apc = "loop"
    /\ sel_i < Len(selected)
    /\ LET analysis_id == selected[sel_i + 1]
       IN IF analysis_id \in AnalysisIds
          THEN \E r \in analysis_func(analysis_id, df) :
                  /\ results' = [results EXCEPT
                                   !.analyses = DictSet(@, analysis_key(analysis_id), r)]
                  /\ replaced' = IF analysis_key(analysis_id) \in DOMAIN results.analyses
                                 THEN DictSet(replaced, analysis_key(analysis_id),
                                              results.analyses[analysis_key(analysis_id)])
                                 ELSE replaced
                  /\ progress' = Append(progress, progress_percent(sel_i, Len(selected)))
          ELSE UNCHANGED <<results, replaced, progress>>
    /\ sel_i' = sel_i + 1
    /\ UNCHANGED <<in_entries, filters, selected, apc, df>>
    /\ UNCHANGED <<parseVars, viewVars>>

run_analyses_return ==
    /\ apc = "loop"
    /\ sel_i = Len(selected)
    /\ apc' = "done"
    /\ UNCHANGED <<in_entries, filters, selected, df, sel_i, results, progress, replaced>>
    /\ UNCHANGED <<parseVars, viewVars>>

RunNext ==
    \/ run_analyses_begin
    \/ run_analyses_step
    \/ run_analyses_return

RunSpec == RunInit /\ [][RunNext]_vars

Next ==
    \/ parse_log_file_begin
    \/ parse_log_file_line
    \/ parse_log_file_return
    \/ parse_csv_file_header
    \/ parse_csv_file_row
    \/ parse_csv_file_return

Spec == Init /\ [][Next]_vars

(***************************************************************************)
(* views.py: upload_file, preview_data and run_analysis as concurrent       *)
(* requests of one server process, one action per step between two accesses *)
(* of the cache dict or of the database                                     *)
(***************************************************************************)
\* what parse_log_file makes of an uploaded content: it returns records, it returns
\* none, or it raises; "rejected" is a request refused before parsing
UploadContents == {"entries", "no_entries", "raises", "rejected"}

\* the process has just started (the cache dict is empty) and the database holds a
\* file uploaded to an earlier run of the process
ViewInit ==
    /\ ParseIdle
    /\ RunIdle
    /\ db_files = {"f1"}
    /\ PARSED_DATA_CACHE = {}
    /\ cache_writers = [f \in FileIds |-> {}]
    /\ req = [r \in Requests |-> NoRequest]
    /\ job = [r \in Requests |-> "none"]
    /\ response = [r \in Requests |-> 0]

\* the request leaves its handler with a response
Respond(r, code) ==
    /\ response' = [response EXCEPT ![r] = code]
    /\ req' = [req EXCEPT ![r].at = "done"]

\* PARSED_DATA_CACHE[file_id] = [...]
CacheWrite(r, f) ==
    /\ PARSED_DATA_CACHE' = PARSED_DATA_CACHE \cup {f}
    /\ cache_writers' = [cache_writers EXCEPT ![f] = @ \cup {r}]

\* a request arrives: the view and the arguments the client chose
request_arrives(r) ==
    /\ req[r].at = "idle"
    /\ \/ \E c \in UploadContents :
             req' = [req EXCEPT ![r] = [view |-> "upload_file", file_id |-> "",
                                        content |-> c, selected |-> "", at |-> "start"]]
       \/ \E f \in FileIds :
             req' = [req EXCEPT ![r] = [view |-> "preview_data", file_id |-> f,
                                        content |-> "", selected |-> "", at |-> "start"]]
       \/ \E f \in FileIds \cup {""}, sel \in {"some", "empty"} :
             req' = [req EXCEPT ![r] = [view |-> "run_analysis", file_id |-> f,
                                        content |-> "", selected |-> sel, at |-> "start"]]
    /\ UNCHANGED <<db_files, PARSED_DATA_CACHE, cache_writers, job, response>>
    /\ UNCHANGED <<parseVars, runVars>>

\* upload_file; the new id is a fresh uuid that no other request can name before the
\* response, so the row and the cache entry are written in one step (an upload that
\* finds every id of FileIds taken waits)
upload_file(r) ==
    /\ req[r].at = "start"
    /\ req[r].view = "upload_file"
    /\ IF req[r].content = "rejected" THEN
          /\ Respond(r, 400)
          /\ UNCHANGED <<db_files, PARSED_DATA_CACHE, cache_writers>>
       ELSE IF req[r].content = "raises" THEN
          /\ Respond(r, 500)
          /\ UNCHANGED <<db_files, PARSED_DATA_CACHE, cache_writers>>
       ELSE IF req[r].content = "no_entries" THEN
          /\ Respond(r, 400)
          /\ UNCHANGED <<db_files, PARSED_DATA_CACHE, cache_writers>>
       ELSE \E f \in FileIds \ db_files :
               /\ db_files' = db_files \cup {f}
               /\ CacheWrite(r, f)
               /\ response' = [response EXCEPT ![r] = 200]
               /\ req' = [req EXCEPT ![r].at = "done", ![r].file_id = f]
    /\ UNCHANGED job
    /\ UNCHANGED <<parseVars, runVars>>

\* the test "file_id not in PARSED_DATA_CACHE" and, on a miss, UploadedFile.objects.get
CacheLookup(r, hit) ==
    IF req[r].file_id \in PARSED_DATA_CACHE THEN
       /\ req' = [req EXCEPT ![r].at = hit]
       /\ UNCHANGED response
    ELSE IF req[r].file_id \notin db_files THEN Respond(r, 404)
    ELSE /\ req' = [req EXCEPT ![r].at = "miss"]
         /\ UNCHANGED response

\* preview_data up to the test of the cache
preview_data_lookup(r) ==
    /\ req[r].at = "start"
    /\ req[r].view = "preview_data"
    /\ CacheLookup(r, "cached")
    /\ UNCHANGED <<db_files, PARSED_DATA_CACHE, cache_writers, job>>
    /\ UNCHANGED <<parseVars, runVars>>

\* preview_data after a miss: the stored file is read and parsed, the cache written
preview_data_fill(r) ==
    /\ req[r].at = "miss"
    /\ req[r].view = "preview_data"
    /\ CacheWrite(r, req[r].file_id)
    /\ req' = [req EXCEPT ![r].at = "cached"]
    /\ UNCHANGED <<db_files, job, response>>
    /\ UNCHANGED <<parseVars, runVars>>

\* preview_data from the read of the cache to the response
preview_data_respond(r) ==
    /\ req[r].at = "cached"
    /\ req[r].view = "preview_data"
    /\ Respond(r, 200)
    /\ UNCHANGED <<db_files, PARSED_DATA_CACHE, cache_writers, job>>
    /\ UNCHANGED <<parseVars, runVars>>

\* run_analysis up to the test of the cache
run_analysis_lookup(r) ==
    /\ req[r].at = "start"
    /\ req[r].view = "run_analysis"
    /\ IF req[r].file_id = "" THEN Respond(r, 400)
       ELSE IF req[r].selected = "empty" THEN Respond(r, 400)
       ELSE CacheLookup(r, "cached")
    /\ UNCHANGED <<db_files, PARSED_DATA_CACHE, cache_writers, job>>
    /\ UNCHANGED <<parseVars, runVars>>

\* run_analysis after a miss
run_analysis_fill(r) ==
    /\ req[r].at = "miss"
    /\ req[r].view = "run_analysis"
    /\ CacheWrite(r, req[r].file_id)
    /\ req' = [req EXCEPT ![r].at = "cached"]
    /\ UNCHANGED <<db_files, job, response>>
    /\ UNCHANGED <<parseVars, runVars>>

\* AnalysisJob.objects.create(..., status='running'); a database write may fail, and a
\* failure here reaches the outer except
run_analysis_create_job(r) ==
    /\ req[r].at = "cached"
    /\ req[r].view = "run_analysis"
    /\ \E saved \in BOOLEAN :
          IF saved
          THEN /\ job' = [job EXCEPT ![r] = "running"]
               /\ req' = [req EXCEPT ![r].at = "analyze"]
               /\ UNCHANGED response
          ELSE /\ Respond(r, 500)
               /\ UNCHANGED job
    /\ UNCHANGED <<db_files, PARSED_DATA_CACHE, cache_writers>>
    /\ UNCHANGED <<parseVars, runVars>>

\* run_analyses, analyzer.stop and save_results_to_csv: they return or one of them raises
run_analysis_compute(r) ==
    /\ req[r].at = "analyze"
    /\ \E raised \in BOOLEAN :
          req' = [req EXCEPT ![r].at = IF raised THEN "except" ELSE "save_completed"]
    /\ UNCHANGED <<db_files, PARSED_DATA_CACHE, cache_writers, job, response>>
    /\ UNCHANGED <<parseVars, runVars>>

\* job.status = 'completed' ... job.save()
run_analysis_save_completed(r) ==
    /\ req[r].at = "save_completed"
    /\ \E saved \in BOOLEAN :
          IF saved
          THEN /\ job' = [job EXCEPT ![r] = "completed"]
               /\ req' = [req EXCEPT ![r].at = "store_results"]
          ELSE /\ req' = [req EXCEPT ![r].at = "except"]
               /\ UNCHANGED job
    /\ UNCHANGED <<db_files, PARSED_DATA_CACHE, cache_writers, response>>
    /\ UNCHANGED <<parseVars, runVars>>

\* the loop of AnalysisResult.objects.create and the response
run_analysis_store_results(r) ==
    /\ req[r].at = "store_results"
    /\ \E saved \in BOOLEAN :
          IF saved
          THEN Respond(r, 200)
          ELSE /\ req' = [req EXCEPT ![r].at = "except"]
               /\ UNCHANGED response
    /\ UNCHANGED <<db_files, PARSED_DATA_CACHE, cache_writers, job>>
    /\ UNCHANGED <<parseVars, runVars>>

\* the inner except: job.status = 'failed' ... job.save(), raise; then the outer except
run_analysis_except(r) ==
    /\ req[r].at = "except"
    /\ \E saved \in BOOLEAN :
          job' = IF saved THEN [job EXCEPT ![r] = "failed"] ELSE job
    /\ Respond(r, 500)
    /\ UNCHANGED <<db_files, PARSED_DATA_CACHE, cache_writers>>
    /\ UNCHANGED <<parseVars, runVars>>

ViewNext ==
    \E r \in Requests :
        \/ request_arrives(r)
        \/ upload_file(r)
        \/ preview_data_lookup(r)
        \/ preview_data_fill(r)
        \/ preview_data_respond(r)
        \/ run_analysis_lookup(r)
        \/ run_analysis_fill(r)
        \/ run_analysis_create_job(r)
        \/ run_analysis_compute(r)
        \/ run_analysis_save_completed(r)
        \/ run_analysis_store_results(r)
        \/ run_analysis_except(r)

ViewSpec == ViewInit /\ [][ViewNext]_vars

(***************************************************************************)
(* Properties of parse_log_file (checked under Spec)                       *)
(***************************************************************************)
\* the k-th non-blank line has been handed to parse_log_line
LineProcessed(k) == k < idx \/ (pc = "raised" /\ k = idx)

MatchesCombined(l) == re_match_groups("APACHE_COMBINED_REGEX", l) # NoMatch

HasEntryOf(l) == \E j \in 1..Len(entries) : entries[j].raw_line = str_strip(LineText(l))

\* C1: on the line-oriented path parse_log_file returns, and a line that matches the
\* combined pattern with the size token "-" contributes no record and no diagnostic.
C1_DashLineExcludedSilently ==
    mode = "log" =>
        \A k \in 1..Len(lines) :
            (LineProcessed(k) /\ MatchesCombined(lines[k]) /\ lines[k].size = <<"-">>) =>
                /\ pc # "raised"
                /\ ~HasEntryOf(lines[k])
                /\ \A j \in 1..Len(errors) : errors[j].n # k

\* the record the claim C2 describes for a combined line with a numeric size token
C2_Record(l) ==
    ParsedLogEntry(l.host, parse_apache_timestamp(l.ts), l.method, l.path, l.protocol,
                   digits_value(l.status), digits_value(l.size), LineText(l))

\* C2: a line matching the combined pattern with a numeric size token yields exactly one
\* record holding the positionally extracted tokens, its timestamp built from the date
\* and time with the offset ignored; the line for 10.0.0.1 at 10/Oct/2020:13:55:36
\* gives status 200, size 1024 and timestamp 2020-10-10T13:55:36 whatever its offset.
C2_CombinedLineYieldsRecord ==
    mode = "log" =>
        \A k \in 1..Len(lines) :
            (LineProcessed(k) /\ MatchesCombined(lines[k]) /\ str_isdigit(lines[k].size)) =>
                /\ pc # "raised"
                /\ \E j \in 1..Len(entries) : entries[j] = C2_Record(lines[k])
                /\ lines[k] \in {Line_ok, Line_west} =>
                      \E j \in 1..Len(entries) :
                          /\ entries[j].ip = S_host
                          /\ entries[j].status = 200
                          /\ entries[j].size = 1024
                          /\ entries[j].timestamp =
                                [some |-> TRUE, y |-> 2020, mo |-> 10, d |-> 10,
                                 h |-> 13, mi |-> 55, s |-> 36]

\* C5: every record parse_log_file holds, and so every record it returns, on either
\* path, has size >= 0 and status >= 0.
C5_NonNegative ==
    \A j \in 1..Len(entries) : entries[j].size >= 0 /\ entries[j].status >= 0

\* a delimited file was parsed to the end, a row with signed status and size cells in
\* it, and records were returned
C5_Witness ==
    /\ pc = "done"
    /\ mode = "csv"
    /\ entries # <<>>
    /\ Row_signed \in Range(lines)
    /\ \E j \in 1..Len(entries) : entries[j].raw_line = LineText(Row_signed)

\* no column of the header line is matched to the ip role or to the path role
C6_NoIpNoPath(l) ==
    \A i \in 1..Len(csv_headers(LineText(l))) :
        header_role(csv_headers(LineText(l))[i]) \notin {"ip", "path"}

Ended == pc \in {"done", "raised"}

C13_MatchesNeither(l) ==
    /\ re_match_groups("APACHE_COMBINED_REGEX", l) = NoMatch
    /\ re_match_groups("NGINX_REGEX", l) = NoMatch

C13_First60(s) == [i \in 1..(IF Len(s) < 60 THEN Len(s) ELSE 60) |-> s[i]]

\* C13: on the line-oriented path, the k-th non-blank line, when it matches neither
\* pattern, yields one diagnostic carrying k and the first 60 characters of the line;
\* diagnostics appear in increasing k.
C13_UnmatchedLineDiagnosed ==
    (mode = "log" /\ Ended) =>
        /\ \A k \in 1..Len(lines) :
              C13_MatchesNeither(lines[k]) =>
                  Cardinality({j \in 1..Len(errors) :
                                  /\ errors[j].n = k
                                  /\ errors[j].text = C13_First60(LineText(lines[k]))}) = 1
        /\ \A i, j \in 1..Len(errors) : i < j => errors[i].n < errors[j].n

\* the part of C13 that is about a line the loop reaches
C13_ReachedLineDiagnosed ==
    mode = "log" =>
        /\ \A k \in 1..Len(lines) :
              (k < idx /\ C13_MatchesNeither(lines[k])) =>
                  Cardinality({j \in 1..Len(errors) :
                                  /\ errors[j].n = k
                                  /\ errors[j].text = C13_First60(LineText(lines[k]))}) = 1
        /\ \A i, j \in 1..Len(errors) : i < j => errors[i].n < errors[j].n

\* the substrings that make a first line a header line
C14_Keywords ==
    { <<"i", "p">>, <<"a", "d", "d", "r", "e", "s", "s">>,
      <<"t", "i", "m", "e", "s", "t", "a", "m", "p">>, <<"d", "a", "t", "e">>,
      <<"m", "e", "t", "h", "o", "d">>, <<"u", "r", "l">>, <<"p", "a", "t", "h">>,
      <<"s", "t", "a", "t", "u", "s">>, <<"s", "i", "z", "e">>, <<"b", "y", "t", "e", "s">> }

C14_Delimited(text) ==
    LET lowered == str_lower(text)
    IN \/ \E i \in 1..Len(text) : text[i] = ","
       \/ \E kw \in C14_Keywords : str_contains(lowered, kw)

\* C14: parse_log_file chooses the strategy from the first non-blank line only: delimited
\* iff that line contains a comma or, case-insensitively, one of the keywords; otherwise
\* line-oriented. The chosen strategy is applied to every line: when delimited is chosen
\* no line is handed to the line parser, even a line that matches the combined pattern.
C14_StrategyFromFirstLine ==
    /\ mode # "none" => (mode = "csv" <=> C14_Delimited(LineText(lines[1])))
    /\ mode = "log" => pc \in {"log_loop", "raised", "done"}
    /\ mode = "csv" =>
          /\ pc \in {"csv_header", "csv_loop", "done"}
          /\ \A k \in 1..Len(lines) :
                MatchesCombined(lines[k]) =>
                    \A j \in 1..Len(entries) :
                        entries[j].raw_line = str_strip(LineText(lines[k])) =>
                            entries[j].ip # lines[k].host /\ entries[j].path # lines[k].path

\* an upper-case header without a comma, then a line that matches the combined pattern,
\* parsed as a delimited row: the whole line is the one cell of the ip column
C14_Witness ==
    /\ pc = "done"
    /\ mode = "csv"
    /\ lines = <<Hdr_upper, Line_ok>>
    /\ Len(entries) = 1
    /\ entries[1].ip = LineText(Line_ok)
    /\ errors = <<>>

C16_RoleOrder == <<"ip", "timestamp", "method", "path", "status", "size">>

C16_Keywords(role) ==
    CASE role = "ip" -> {<<"i", "p">>, <<"a", "d", "d", "r", "e", "s", "s">>,
                         <<"c", "l", "i", "e", "n", "t">>}
      [] role = "timestamp" -> {<<"t", "i", "m", "e">>, <<"d", "a", "t", "e">>}
      [] role = "method" -> {<<"m", "e", "t", "h", "o", "d">>, <<"v", "e", "r", "b">>}
      [] role = "path" -> {<<"p", "a", "t", "h">>, <<"u", "r", "l">>, <<"u", "r", "i">>,
                           <<"r", "e", "q", "u", "e", "s", "t">>}
      [] role = "status" -> {<<"s", "t", "a", "t", "u", "s">>, <<"c", "o", "d", "e">>,
                             <<"r", "e", "s", "p", "o", "n", "s", "e">>}
      [] role = "size" -> {<<"s", "i", "z", "e">>, <<"b", "y", "t", "e", "s">>,
                           <<"l", "e", "n", "g", "t", "h">>}

\* the positions in the role order of the roles one of whose keywords is in the token
C16_Matching(header) ==
    LET token == str_strip_chars(str_strip(str_lower(header)), QuoteChars)
    IN {i \in 1..Len(C16_RoleOrder) :
           \E kw \in C16_Keywords(C16_RoleOrder[i]) : str_contains(token, kw)}

\* the one role of a column: the first matching role in the role order
C16_RoleOf(header) ==
    LET matching == C16_Matching(header)
    IN IF matching = {} THEN "none" ELSE C16_RoleOrder[MinOf(matching)]

\* C16: detect_csv_fields assigns each header column to at most one role, the first role
\* in the order ip, timestamp, method, path, status, size one of whose keywords is a
\* substring of the lower-cased, stripped header token; the field map gives each role
\* zero or one column; for the header ip,path,status,bytes it is ip 0, path 1, status 2,
\* size 3, and the row 1.2.3.4,/a,200,500 yields one record.
C16_FieldMap ==
    (mode = "csv" /\ pc \in {"csv_loop", "done"}) =>
        LET hs == csv_headers(LineText(lines[1]))
            role_of == [c \in 1..Len(hs) |-> C16_RoleOf(hs[c])]
        IN /\ \A role \in Roles :
                 IF \E c \in 1..Len(hs) : role_of[c] = role
                 THEN /\ field_map[role] \in 0..(Len(hs) - 1)
                      /\ role_of[field_map[role] + 1] = role
                 ELSE field_map[role] = -1
           /\ lines[1] = Hdr_full =>
                 field_map = [ip |-> 0, timestamp |-> -1, method |-> -1, path |-> 1,
                              status |-> 2, size |-> 3]
           /\ (pc = "done" /\ lines = <<Hdr_full, Row_ok>>) =>
                 /\ errors = <<>>
                 /\ Len(entries) = 1
                 /\ entries[1].ip = <<"1", ".", "2", ".", "3", ".", "4">>
                 /\ entries[1].path = <<"/", "a">>
                 /\ entries[1].status = 200
                 /\ entries[1].size = 500

\* the header ip,path,status,bytes and the row 1.2.3.4,/a,200,500, parsed to the end
C16_Witness ==
    /\ pc = "done"
    /\ mode = "csv"
    /\ lines = <<Hdr_full, Row_ok>>
    /\ field_map["size"] = 3
    /\ Len(entries) = 1

\* the tokens of a line of the combined shape
C15_CombinedShape(l) ==
    /\ l.kind = "access"
    /\ l.host # <<>> /\ l.ident # <<>> /\ l.user # <<>> /\ l.ts # <<>>
    /\ l.method # <<>> /\ l.path # <<>> /\ l.status # <<>> /\ l.size # <<>>

C15_Numeric(token) == \A i \in 1..Len(token) : token[i] \in Digits

\* C15: in the line parser, a line otherwise of the combined shape whose status token is
\* not numeric, or whose size token is not numeric and not "-", still yields a record,
\* with that field set to 0.
C15_NonNumericDefaultsToZero ==
    mode = "log" =>
        \A k \in 1..Len(lines) :
            (LineProcessed(k) /\ C15_CombinedShape(lines[k])) =>
                /\ ~C15_Numeric(lines[k].status) =>
                      /\ pc # "raised"
                      /\ \E j \in 1..Len(entries) :
                            /\ entries[j].raw_line = str_strip(LineText(lines[k]))
                            /\ entries[j].status = 0
                /\ (~C15_Numeric(lines[k].size) /\ lines[k].size # <<"-">>) =>
                      /\ pc # "raised"
                      /\ \E j \in 1..Len(entries) :
                            /\ entries[j].raw_line = str_strip(LineText(lines[k]))
                            /\ entries[j].size = 0

\* the status half of C15 as the code has it: a line of the combined shape with a
\* non-numeric status token matches neither pattern and gets a diagnostic, no record
C15_BadStatusIsDiagnosed ==
    mode = "log" =>
        \A k \in 1..Len(lines) :
            (k < idx /\ C15_CombinedShape(lines[k]) /\ ~C15_Numeric(lines[k].status)) =>
                /\ \E j \in 1..Len(errors) : errors[j].n = k
                /\ \A j \in 1..Len(entries) : entries[j].raw_line # str_strip(LineText(lines[k]))

\* C19: on the line-oriented path parse_log_file returns, every non-blank line yields
\* exactly one of a record or a diagnostic, and a failing line never stops later lines:
\* records plus diagnostics equal the non-blank lines, diagnostics in input order.
C19_EveryLineAccounted ==
    (mode = "log" /\ Ended) =>
        /\ pc = "done"
        /\ Len(entries) + Len(errors) = Len(lines)
        /\ \A k \in 1..Len(lines) :
              (\E j \in 1..Len(errors) : errors[j].n = k)
                  # (\E j \in 1..Len(entries) : entries[j].raw_line = str_strip(LineText(lines[k])))
        /\ \A i, j \in 1..Len(errors) : i < j => errors[i].n < errors[j].n

\* the part of C19 that holds of the lines the loop reaches: one diagnostic per line
\* that yields no record
C19_ReachedLinesAccounted ==
    (mode = "log" /\ pc \in {"log_loop", "done"}) =>
        Len(entries) + Len(errors) = idx - 1

(***************************************************************************)
(* Properties of run_analyses (checked under RunSpec)                      *)
(***************************************************************************)
\* the rows before filtering
InputRows == create_dataframe(in_entries)

\* the rows the other filter keys let through
RowsWithout(f) == IF f = NoFilters THEN InputRows ELSE apply_filters(InputRows, f)

C3_Keeps(codes, status) ==
    \E c \in 1..Len(codes) :
        \/ codes[c] \in {200, 300, 400, 500} /\ codes[c] <= status /\ status < codes[c] + 100
        \/ status = codes[c]

\* C3: with a non-empty statusCodes filter, apply_filters keeps a record (that the other
\* filter keys let through) iff for some listed code c either c is one of 200, 300, 400,
\* 500 and c <= status < c + 100, or status = c; with the codes [404, 500] alone,
\* statuses 404, 501 and 503 are kept and 403 and 405 are not.
C3_StatusFilter ==
    (apc \in {"loop", "done"} /\ filters.statusCodes # <<>>) =>
        /\ df = SelectSeq(RowsWithout([filters EXCEPT !.statusCodes = <<>>]),
                          LAMBDA r : C3_Keeps(filters.statusCodes, r.status))
        /\ filters = F_status(<<404, 500>>) =>
              \A i \in 1..Len(InputRows) :
                  /\ InputRows[i].status \in {404, 501, 503} => InputRows[i] \in Range(df)
                  /\ InputRows[i].status \in {403, 405} => InputRows[i] \notin Range(df)

\* the codes [404, 500] over records of which a 501 is kept and a 403 dropped
C3_Witness ==
    /\ apc = "done"
    /\ filters = F_status(<<404, 500>>)
    /\ \E i \in 1..Len(InputRows) : InputRows[i].status = 403
    /\ \E i \in 1..Len(df) : df[i].status = 501
    /\ Len(df) < Len(InputRows)

RECURSIVE C4_SumCounts(_)
C4_SumCounts(q) == IF q = <<>> THEN 0 ELSE q[1].count + C4_SumCounts(Tail(q))

C4_Present == Cardinality({i \in 1..Len(df) : df[i].timestamp.some})

\* C4: hourly_traffic_counter returns exactly 24 entries, for the hours 0, 1, ..., 23 in
\* that order; the counts sum to the number of filtered records with a timestamp, so to
\* at most the filtered record count, and to exactly it when no timestamp is absent.
C4_HourlyTraffic ==
    "hourlyTraffic" \in DOMAIN results.analyses =>
        LET hourly == results.analyses["hourlyTraffic"]
        IN /\ Len(hourly) = 24
           /\ \A i \in 1..Len(hourly) : hourly[i].hour = i - 1
           /\ C4_SumCounts(hourly) = C4_Present
           /\ C4_SumCounts(hourly) <= results.filteredRecords
           /\ C4_Present = Len(df) => C4_SumCounts(hourly) = results.filteredRecords

\* hourly traffic over filtered records some with and some without a timestamp
C4_Witness ==
    /\ apc = "done"
    /\ "hourlyTraffic" \in DOMAIN results.analyses
    /\ C4_Present >= 1
    /\ C4_Present < Len(df)
    /\ results.analyses["hourlyTraffic"][14].count >= 1

\* C7: running the same analysis twice over the same filtered records gives identical
\* results, the order of tied entries included: the result a repeated analysis id
\* replaces equals the one that replaces it.
C7_RepeatedAnalysisIdentical ==
    \A k \in DOMAIN replaced : replaced[k] = results.analyses[k]

ResultKeys == {"uniqueIps", "topPages", "hourlyTraffic", "statusCodes", "bandwidth"}

\* C8 as claimed: a selection of names taken from uniqueIps, topPages, hourlyTraffic,
\* statusCodes, bandwidth gives an analyses map with exactly the selected names as keys.
C8_KeysAreTheSelection ==
    (apc = "done" /\ Range(selected) \subseteq ResultKeys) =>
        DOMAIN results.analyses = Range(selected)

C8_KeyOf(id) ==
    CASE id = "unique-ips" -> "uniqueIps"
      [] id = "top-pages" -> "topPages"
      [] id = "hourly-traffic" -> "hourlyTraffic"
      [] id = "status-codes" -> "statusCodes"
      [] id = "bandwidth" -> "bandwidth"

\* C8 as amended: a selection of the analysis ids unique-ips, top-pages, hourly-traffic,
\* status-codes, bandwidth gives an analyses map whose keys are exactly the result keys
\* uniqueIps, topPages, hourlyTraffic, statusCodes, bandwidth of the selected ids.
C8_KeysOfSelectedIds ==
    (apc = "done" /\ Range(selected) \subseteq AnalysisIds) =>
        DOMAIN results.analyses = {C8_KeyOf(id) : id \in Range(selected)}

\* a proper, non-empty subset of the ids, one of them twice
C8_Witness ==
    /\ apc = "done"
    /\ selected = <<"top-pages", "top-pages", "hourly-traffic">>
    /\ DOMAIN results.analyses = {"topPages", "hourlyTraffic"}

C9_InRange(size) ==
    /\ filters.sizeRange.min.given => size >= filters.sizeRange.min.v
    /\ filters.sizeRange.max.given => size <= filters.sizeRange.max.v

\* C9: with a sizeRange filter, the records kept (of those the other filter keys let
\* through) are exactly those with size >= min when min is given and size <= max when
\* max is given, for every integer bound, 0 included.
C9_SizeRangeInclusive ==
    (apc \in {"loop", "done"}
        /\ (filters.sizeRange.min.given \/ filters.sizeRange.max.given)) =>
        df = SelectSeq(RowsWithout([filters EXCEPT !.sizeRange = NoFilters.sizeRange]),
                       LAMBDA r : C9_InRange(r.size))

\* a <= b on instants, by day number and then second of the day
C10_NotAfter(a, b) ==
    LET day(t) == (t.y * 12 + t.mo) * 31 + t.d
        second(t) == (t.h * 60 + t.mi) * 60 + t.s
    IN day(a) < day(b) \/ (day(a) = day(b) /\ second(a) <= second(b))

C10_StartGiven == filters.dateRange.start # <<>>

C10_EndGiven == filters.dateRange.end # <<>>

C10_InRange(ts) ==
    /\ ts.some
    /\ C10_StartGiven => C10_NotAfter(fromisoformat(filters.dateRange.start), ts)
    /\ C10_EndGiven => C10_NotAfter(ts, fromisoformat(filters.dateRange.end))

\* C10: when dateRange.start and/or dateRange.end is given as a valid date, the records
\* kept (of those the other filter keys let through) are exactly those whose timestamp is
\* present and satisfies start <= timestamp and timestamp <= end; a record without a
\* timestamp is never kept.
C10_DateRange ==
    (/\ apc \in {"loop", "done"}
     /\ C10_StartGiven \/ C10_EndGiven
     /\ C10_StartGiven => fromisoformat(filters.dateRange.start).some
     /\ C10_EndGiven => fromisoformat(filters.dateRange.end).some) =>
        /\ df = SelectSeq(RowsWithout([filters EXCEPT !.dateRange = NoFilters.dateRange]),
                          LAMBDA r : C10_InRange(r.timestamp))
        /\ \A i \in 1..Len(df) : df[i].timestamp.some

\* both bounds given, a record on the start bound kept, one without a timestamp dropped
C10_Witness ==
    /\ apc = "done"
    /\ filters = F_date(T_noon, T_noon)
    /\ \E i \in 1..Len(InputRows) : ~InputRows[i].timestamp.some
    /\ \E i \in 1..Len(df) : df[i].timestamp = fromisoformat(T_noon)
    /\ Len(df) < Len(InputRows)

\* a date bound that is given and is a valid date (an invalid one counts as absent)
C11_DateActive(bound) == bound # <<>> /\ fromisoformat(bound).some

\* the record satisfies every active key of the filter dict
C11_Satisfies(r) ==
    /\ C11_DateActive(filters.dateRange.start) =>
          r.timestamp.some /\ C10_NotAfter(fromisoformat(filters.dateRange.start), r.timestamp)
    /\ C11_DateActive(filters.dateRange.end) =>
          r.timestamp.some /\ C10_NotAfter(r.timestamp, fromisoformat(filters.dateRange.end))
    /\ filters.ipAddress # <<>> => str_contains(r.ip, filters.ipAddress)
    /\ filters.urlPattern # <<>> => str_contains(r.path, filters.urlPattern)
    /\ filters.statusCodes # <<>> => C3_Keeps(filters.statusCodes, r.status)
    /\ filters.httpMethods # <<>> =>
          \E m \in 1..Len(filters.httpMethods) : filters.httpMethods[m] = r.method
    /\ filters.sizeRange.min.given => r.size >= filters.sizeRange.min.v
    /\ filters.sizeRange.max.given => r.size <= filters.sizeRange.max.v

\* C11: for every filter dict, the filtered rows are the order-preserving subsequence of
\* the input rows made of exactly the records that satisfy every active filter key (keys
\* ANDed, the codes of statusCodes and the methods of httpMethods ORed); an empty filter
\* dict returns the input unchanged and filteredRecords = totalRecords.
C11_FilterComposition ==
    apc \in {"loop", "done"} =>
        /\ df = SelectSeq(InputRows, C11_Satisfies)
        /\ results.filteredRecords = Len(df)
        /\ filters = NoFilters =>
              df = InputRows /\ results.filteredRecords = results.totalRecords

\* the position in the filtered rows at which an address is first encountered
C12_FirstSeen(a) == MinOf({i \in 1..Len(df) : df[i].ip = a})

C12_Requests(a) == Cardinality({i \in 1..Len(df) : df[i].ip = a})

C12_Addresses == {df[i].ip : i \in 1..Len(df)}

\* address a is ranked before address b
C12_Before(a, b) ==
    \/ C12_Requests(a) > C12_Requests(b)
    \/ C12_Requests(a) = C12_Requests(b) /\ C12_FirstSeen(a) < C12_FirstSeen(b)

\* the number of addresses ranked before a, plus one
C12_Rank(a) == 1 + Cardinality({b \in C12_Addresses : C12_Before(b, a)})

\* C12: unique_ip_counter returns count = the number of distinct addresses and topIps =
\* the min(10, count) addresses with the highest request counts, in descending count
\* order, addresses with equal counts ordered by which was encountered first.
C12_UniqueIpsRanking ==
    "uniqueIps" \in DOMAIN results.analyses =>
        LET u == results.analyses["uniqueIps"]
            n == IF Cardinality(C12_Addresses) < 10 THEN Cardinality(C12_Addresses) ELSE 10
        IN /\ u.count = Cardinality(C12_Addresses)
           /\ Len(u.topIps) = n
           /\ \A i \in 1..n :
                 /\ u.topIps[i].ip \in C12_Addresses
                 /\ C12_Rank(u.topIps[i].ip) = i
                 /\ u.topIps[i].count = C12_Requests(u.topIps[i].ip)

\* the parts of C12 that do not depend on the order of addresses with equal counts
C12_CountsDescending ==
    "uniqueIps" \in DOMAIN results.analyses =>
        LET u == results.analyses["uniqueIps"]
        IN /\ u.count = Cardinality(C12_Addresses)
           /\ {u.topIps[i].ip : i \in 1..Len(u.topIps)} = C12_Addresses
           /\ \A i \in 1..Len(u.topIps) : u.topIps[i].count = C12_Requests(u.topIps[i].ip)
           /\ \A i \in 1..(Len(u.topIps) - 1) : u.topIps[i].count >= u.topIps[i + 1].count

\* the positions of selected_analyses that name an analysis
C18_Recognized == {i \in 1..Len(selected) : selected[i] \in AnalysisIds}

\* C18: run_analyses with a progress callback and a non-empty selection invokes the
\* callback once after each selected analysis that ran, in the caller's order; the
\* percentages are non-decreasing and the last one reported before run_analyses returns
\* is 100, for every selection list, lists with an unrecognized or a repeated id included.
C18_ProgressEndsAt100 ==
    (apc = "done" /\ selected # <<>>) =>
        /\ Len(progress) = Cardinality(C18_Recognized)
        /\ \A i \in 1..(Len(progress) - 1) : progress[i] <= progress[i + 1]
        /\ progress # <<>> => progress[Len(progress)] = 100

\* the part of C18 that holds: once per analysis that ran, non-decreasing, and 100 at the
\* end when the last id of the list names an analysis
C18_ProgressOfRecognized ==
    (apc = "done" /\ selected # <<>>) =>
        /\ Len(progress) = Cardinality(C18_Recognized)
        /\ \A i \in 1..(Len(progress) - 1) : progress[i] <= progress[i + 1]
        /\ selected[Len(selected)] \in AnalysisIds => progress[Len(progress)] = 100

(***************************************************************************)
(* Properties of the views (checked under ViewSpec)                        *)
(***************************************************************************)
\* C17: PARSED_DATA_CACHE has at most one writer per cache key: under any interleaving
\* of concurrent upload_file, preview_data and run_analysis requests, no two requests
\* both perform the write for the same file id.
C17_OneWriterPerKey ==
    \A f \in FileIds : Cardinality(cache_writers[f]) <= 1

\* the part of C17 that holds: the key of an upload is written by that upload alone
\* while no request has missed on it
C17_UploadWritesFreshKey ==
    \A r \in Requests :
        (req[r].view = "upload_file" /\ response[r] = 200) =>
            /\ r \in cache_writers[req[r].file_id]
            /\ req[r].file_id \in PARSED_DATA_CACHE

C20_Step(r) ==
    \/ job'[r] = job[r]
    \/ job[r] = "none" /\ job'[r] = "running"
    \/ job[r] = "running" /\ job'[r] \in {"completed", "failed"}

\* C20: an AnalysisJob created by run_analysis starts in status running and its status
\* changes only from running to completed or from running to failed: when run_analysis
\* returns the job is not still running, and a job saved as completed is never
\* afterwards changed to failed, storing the AnalysisResult rows failing included.
C20_JobStatusTransitions ==
    /\ [][\A r \in Requests : C20_Step(r)]_vars
    /\ [](\A r \in Requests : req[r].at = "done" => job[r] # "running")

\* the part of C20 that holds when the database takes the write of the except block:
\* a job starts as running, and a request that ends with 200 leaves it completed
C20_CompletedOnSuccess ==
    \A r \in Requests :
        /\ req[r].at \in {"analyze", "save_completed"} => job[r] = "running"
        /\ (req[r].view = "run_analysis" /\ response[r] = 200) => job[r] = "completed"

====
